---- MODULE Spec2Model ----
(***************************************************************************)
(* Model of app.py: the bulk tracking uploader.  One uploaded file is      *)
(* loaded into a data frame, validated, given defaults for the optional    *)
(* columns and then processed row by row: tracking is POSTed for the order *)
(* and, when that returned 200 or 201, the order is PUT to "completed".    *)
(* An uncaught Python exception ends the script run (pc = "crashed").      *)
(***************************************************************************)
EXTENDS Integers, Sequences, FiniteSets, TLC

VARIABLES pc, uploaded, df, ok, missing, results, total, i, oid,
          t_status, t_data, success_tracking, c_status, c_data,
          success_complete, net, sent, inflight, progLog, exported,
          attached, completed, crash

vars == <<pc, uploaded, df, ok, missing, results, total, i, oid,
          t_status, t_data, success_tracking, c_status, c_data,
          success_complete, net, sent, inflight, progLog, exported,
          attached, completed, crash>>

\* ------------------------------------------------------------------ bounds
MaxRows == 2

\* ------------------------------------------------------- python values
\* A cell of the data frame: kind "int" (v), "float" (v in tenths),
\* "text" (a string, v is its code), "nan" (empty cell) or "none" (null).
IntV(n)  == [kind |-> "int",   v |-> n]
FltV(t)  == [kind |-> "float", v |-> t]
TxtV(c)  == [kind |-> "text",  v |-> c]
NanV     == [kind |-> "nan",   v |-> 0]
NoneV    == [kind |-> "none",  v |-> 0]

\* Optional values of the script (None or a value).
None     == <<>>
Some(x)  == <<x>>

\* int(x) raises for a NaN, for None and for a non-numeric string.
PyIntOk(x) == x.kind \in {"int", "float"}

\* int(x): identity on an int, truncation toward zero on a float.
PyInt(x) ==
  CASE x.kind = "int"   -> x.v
    [] x.kind = "float" -> IF x.v >= 0 THEN x.v \div 10 ELSE -((-x.v) \div 10)
    [] OTHER            -> 0

\* bool(x): None, 0, 0.0 are falsy; a NaN and a non-empty string are truthy.
Truthy(x) ==
  CASE x.kind = "none"  -> FALSE
    [] x.kind = "int"   -> x.v # 0
    [] x.kind = "float" -> x.v # 0
    [] OTHER            -> TRUE

\* str(x): a string stays as it is, anything else is rendered as text.
PyStr(x) ==
  IF x.kind = "text" THEN x
  ELSE TxtV(CASE x.kind = "int"   -> 1000 + x.v
              [] x.kind = "float" -> 2000 + x.v
              [] x.kind = "nan"   -> 3000
              [] OTHER            -> 3001)

\* ------------------------------------------------------------- datasets
AllColumns == {"order_id", "tracking_provider", "tracking_number",
               "date_shipped", "status_shipped", "replace_tracking"}

CellDomain ==
  [order_id          : {IntV(1), FltV(25), TxtV(7)},
   tracking_provider : {TxtV(1)},
   tracking_number   : {TxtV(2)},
   date_shipped      : {TxtV(3)},
   status_shipped    : {NanV, IntV(0)},
   replace_tracking  : {NanV, IntV(1)}]

RowsOver(cols) == {[c \in cols |-> t[c]] : t \in CellDomain}

Datasets ==
  UNION {UNION {{[cols |-> cols, rows |-> r] : r \in [1..n -> RowsOver(cols)]}
                : n \in 0..MaxRows}
         : cols \in SUBSET AllColumns}

\* ------------------------------------------------------------ functions
required == <<"order_id", "tracking_provider", "tracking_number">>

\* Variant: ok is decided by the first required column alone.
validate_df_first(d) ==
  LET miss == SelectSeq(required, LAMBDA c : c \notin d.cols)
  IN  [ok |-> "order_id" \in d.cols, missing |-> miss]

\* validate_df: (ok, missing)
validate_df(d) ==
  LET miss == SelectSeq(required, LAMBDA c : c \notin d.cols)
  IN  [ok |-> Len(miss) = 0, missing |-> miss]

\* Variant: the column is assigned whether or not it is present.
SetDefaultAlways(d, col, val) ==
  [cols |-> d.cols \cup {col},
   rows |-> [k \in 1..Len(d.rows) |->
               [c \in d.cols \cup {col} |->
                  IF c = col THEN val ELSE d.rows[k][c]]]]

\* One default column: added with a uniform value when the column is absent.
SetDefault(d, col, val) ==
  IF col \notin d.cols
  THEN [cols |-> d.cols \cup {col},
        rows |-> [k \in 1..Len(d.rows) |->
                    [c \in d.cols \cup {col} |->
                       IF c = col THEN val ELSE d.rows[k][c]]]]
  ELSE d

\* Defaults for optional fields.
ApplyDefaults(d) ==
  SetDefault(SetDefault(d, "status_shipped", IntV(1)), "replace_tracking", IntV(0))

\* row.get(key, default)
RowGet(row, key, default) == IF key \in DOMAIN row THEN row[key] ELSE default

\* post_tracking raises before the request when a coercion fails.
PayloadOk(row) ==
  /\ PyIntOk(row["order_id"])
  /\ PyIntOk(RowGet(row, "status_shipped", IntV(1)))
  /\ PyIntOk(RowGet(row, "replace_tracking", IntV(0)))

\* The JSON body of the POST: keys whose value is None are dropped.
Payload(row) ==
  LET date == RowGet(row, "date_shipped", NoneV)
      keys == {"tracking_provider", "tracking_number", "status_shipped",
               "replace_tracking"}
              \cup (IF Truthy(date) THEN {"date_shipped"} ELSE {})
  IN  [k \in keys |->
         CASE k = "tracking_provider" -> PyStr(row["tracking_provider"])
           [] k = "tracking_number"   -> PyStr(row["tracking_number"])
           [] k = "date_shipped"      -> PyStr(date)
           [] k = "status_shipped"    ->
                IntV(PyInt(RowGet(row, "status_shipped", IntV(1))))
           [] OTHER                   ->
                IntV(PyInt(RowGet(row, "replace_tracking", IntV(0))))]

CompletePayload == [status |-> TxtV(9)]

\* What the remote service may answer: a status and a body that is JSON or not.
Replies ==
  {[status |-> 200, json |-> TRUE], [status |-> 201, json |-> TRUE],
   [status |-> 500, json |-> FALSE]}

\* r.json() with the {"text": r.text} fallback.
ParseBody(reply) ==
  [form |-> IF reply.json THEN "json" ELSE "text", of |-> reply.status]

Skipped == [form |-> "skipped", of |-> 0]

\* Variant: any status that was received counts as success.
IsSuccessAnyStatus(status) == status > 0

\* status in (200, 201)
IsSuccess(status) == status \in {200, 201}

\* Variant: the row index counted from 0.
ProgressValueZeroBased(k, n) == [num |-> k - 1, den |-> n]

\* i / total, kept as a fraction
ProgressValue(k, n) == [num |-> k, den |-> n]

RowResult(o, ts, tok, cs, cok, td, cd) ==
  [order_id |-> o, tracking_status |-> ts, tracking_ok |-> tok,
   complete_status |-> cs, complete_ok |-> cok,
   tracking_response |-> td, complete_response |-> cd]

Event(ev, op, row, o, status) ==
  [ev |-> ev, op |-> op, row |-> row, oid |-> o, status |-> status]

\* ----------------------------------------------------------------- Init
Init ==
  /\ pc = "uploaded"
  /\ uploaded \in Datasets
  /\ df = [cols |-> {}, rows |-> <<>>]
  /\ ok = FALSE
  /\ missing = <<>>
  /\ results = <<>>
  /\ total = 0
  /\ i = 0
  /\ oid = 0
  /\ t_status = 0
  /\ t_data = Skipped
  /\ success_tracking = FALSE
  /\ c_status = None
  /\ c_data = Skipped
  /\ success_complete = FALSE
  /\ net = <<>>
  /\ sent = <<>>
  /\ inflight = {}
  /\ progLog = <<>>
  /\ exported = None
  /\ attached = {}
  /\ completed = {}
  /\ crash = "no"

Locals == <<oid, t_status, t_data, success_tracking, c_status, c_data,
            success_complete>>
Remote == <<net, sent, inflight, attached, completed>>

\* -------------------------------------------------------------- actions
\* if uploaded: load, validate, st.error + st.stop when columns are missing
UploadStop ==
  /\ pc = "uploaded"
  /\ ~validate_df(uploaded).ok
  /\ df' = uploaded
  /\ ok' = FALSE
  /\ missing' = validate_df(uploaded).missing
  /\ pc' = "schema_stop"
  /\ UNCHANGED <<uploaded, results, total, i, progLog, exported, crash>>
  /\ UNCHANGED Locals
  /\ UNCHANGED Remote

\* if uploaded: load, validate, defaults, preview
UploadPreview ==
  /\ pc = "uploaded"
  /\ validate_df(uploaded).ok
  /\ df' = ApplyDefaults(uploaded)
  /\ ok' = TRUE
  /\ missing' = validate_df(uploaded).missing
  /\ pc' = "preview"
  /\ UNCHANGED <<uploaded, results, total, i, progLog, exported, crash>>
  /\ UNCHANGED Locals
  /\ UNCHANGED Remote

\* The button reruns the script: the frame is loaded and defaulted again,
\* then results = [], prog = st.progress(0), total = len(df).
RunBulkUpdate ==
  /\ pc = "preview"
  /\ df' = ApplyDefaults(uploaded)
  /\ results' = <<>>
  /\ progLog' = <<ProgressValue(0, 1)>>
  /\ total' = Len(uploaded.rows)
  /\ i' = 1
  /\ pc' = "loop"
  /\ UNCHANGED <<uploaded, ok, missing, exported, crash>>
  /\ UNCHANGED Locals
  /\ UNCHANGED Remote

\* Variant: the coercion failure is caught and the row is reported as failed.
RowCoerceSkip ==
  /\ pc = "loop"
  /\ i <= total
  /\ ~PyIntOk(df.rows[i]["order_id"])
  /\ oid' = 0
  /\ t_status' = 0
  /\ t_data' = Skipped
  /\ success_tracking' = FALSE
  /\ c_status' = None
  /\ c_data' = Skipped
  /\ success_complete' = FALSE
  /\ pc' = "append"
  /\ UNCHANGED <<uploaded, df, ok, missing, results, total, i, progLog, exported, crash>>
  /\ UNCHANGED Remote

\* oid = int(row["order_id"]) raises
RowCoerceFail ==
  /\ pc = "loop"
  /\ i <= total
  /\ ~PyIntOk(df.rows[i]["order_id"])
  /\ pc' = "crashed"
  /\ crash' = "order_id"
  /\ UNCHANGED <<uploaded, df, ok, missing, results, total, i, progLog, exported>>
  /\ UNCHANGED Locals
  /\ UNCHANGED Remote

\* int(row.get("status_shipped", 1)) or int(row.get("replace_tracking", 0)) raises
RowPayloadFail ==
  /\ pc = "loop"
  /\ i <= total
  /\ PyIntOk(df.rows[i]["order_id"])
  /\ ~PayloadOk(df.rows[i])
  /\ oid' = PyInt(df.rows[i]["order_id"])
  /\ pc' = "crashed"
  /\ crash' = "payload"
  /\ UNCHANGED <<uploaded, df, ok, missing, results, total, i, progLog, exported>>
  /\ UNCHANGED <<t_status, t_data, success_tracking, c_status, c_data, success_complete>>
  /\ UNCHANGED Remote

\* oid = int(row["order_id"]); post_tracking builds the body and POSTs it
AttachSend ==
  /\ pc = "loop"
  /\ i <= total
  /\ PayloadOk(df.rows[i])
  /\ oid' = PyInt(df.rows[i]["order_id"])
  /\ sent' = Append(sent, [op |-> "attach", row |-> i,
                           oid |-> PyInt(df.rows[i]["order_id"]),
                           body |-> Payload(df.rows[i])])
  /\ net' = Append(net, Event("issue", "attach", i,
                              PyInt(df.rows[i]["order_id"]), None))
  /\ inflight' = inflight \cup {<<"attach", i>>}
  /\ pc' = "attach_wait"
  /\ UNCHANGED <<uploaded, df, ok, missing, results, total, i, progLog, exported, crash>>
  /\ UNCHANGED <<t_status, t_data, success_tracking, c_status, c_data, success_complete>>
  /\ UNCHANGED <<attached, completed>>

\* requests.post raises (timeout, connection error): nothing catches it
AttachRaise ==
  /\ pc = "attach_wait"
  /\ net' = Append(net, Event("raise", "attach", i, oid, None))
  /\ inflight' = inflight \ {<<"attach", i>>}
  /\ pc' = "crashed"
  /\ crash' = "transport"
  /\ UNCHANGED <<uploaded, df, ok, missing, results, total, i, progLog, exported>>
  /\ UNCHANGED Locals
  /\ UNCHANGED <<sent, attached, completed>>

\* the POST returned 200 or 201: complete_order PUTs {"status": "completed"}
AttachReturnOk ==
  /\ pc = "attach_wait"
  /\ \E reply \in Replies :
       /\ IsSuccess(reply.status)
       /\ t_status' = reply.status
       /\ t_data' = ParseBody(reply)
       /\ success_tracking' = IsSuccess(reply.status)
       /\ net' = net \o <<Event("return", "attach", i, oid, Some(reply.status)),
                          Event("issue", "complete", i, oid, None)>>
  /\ attached' = attached \cup {oid}
  /\ sent' = Append(sent, [op |-> "complete", row |-> i, oid |-> oid,
                           body |-> CompletePayload])
  /\ inflight' = (inflight \ {<<"attach", i>>}) \cup {<<"complete", i>>}
  /\ pc' = "complete_wait"
  /\ UNCHANGED <<uploaded, df, ok, missing, results, total, i, progLog, exported, crash>>
  /\ UNCHANGED <<oid, c_status, c_data, success_complete, completed>>

\* Variant: the completion variables of the previous row are left as they are.
AttachReturnFailStale ==
  /\ pc = "attach_wait"
  /\ \E reply \in Replies :
       /\ ~(reply.status \in {200, 201})
       /\ t_status' = reply.status
       /\ t_data' = ParseBody(reply)
       /\ success_tracking' = FALSE
       /\ net' = Append(net, Event("return", "attach", i, oid, Some(reply.status)))
  /\ inflight' = inflight \ {<<"attach", i>>}
  /\ pc' = "append"
  /\ UNCHANGED <<uploaded, df, ok, missing, results, total, i, progLog, exported, crash>>
  /\ UNCHANGED <<oid, c_status, c_data, success_complete, sent, attached, completed>>

\* the POST returned another status: the completion step is skipped
AttachReturnFail ==
  /\ pc = "attach_wait"
  /\ \E reply \in Replies :
       /\ ~IsSuccess(reply.status)
       /\ t_status' = reply.status
       /\ t_data' = ParseBody(reply)
       /\ success_tracking' = IsSuccess(reply.status)
       /\ net' = Append(net, Event("return", "attach", i, oid, Some(reply.status)))
  /\ c_status' = None
  /\ c_data' = Skipped
  /\ success_complete' = FALSE
  /\ inflight' = inflight \ {<<"attach", i>>}
  /\ pc' = "append"
  /\ UNCHANGED <<uploaded, df, ok, missing, results, total, i, progLog, exported, crash>>
  /\ UNCHANGED <<oid, sent, attached, completed>>

\* requests.put raises: nothing catches it
CompleteRaise ==
  /\ pc = "complete_wait"
  /\ net' = Append(net, Event("raise", "complete", i, oid, None))
  /\ inflight' = inflight \ {<<"complete", i>>}
  /\ pc' = "crashed"
  /\ crash' = "transport"
  /\ UNCHANGED <<uploaded, df, ok, missing, results, total, i, progLog, exported>>
  /\ UNCHANGED Locals
  /\ UNCHANGED <<sent, attached, completed>>

\* Variant: a completion that did not succeed is sent again.
CompleteReturnRetry ==
  /\ pc = "complete_wait"
  /\ \E reply \in Replies :
       /\ c_status' = Some(reply.status)
       /\ c_data' = ParseBody(reply)
       /\ success_complete' = (reply.status \in {200, 201})
       /\ completed' = IF reply.status \in {200, 201} THEN completed \cup {oid}
                       ELSE completed
       /\ IF reply.status \in {200, 201}
          THEN /\ net' = Append(net, Event("return", "complete", i, oid,
                                            Some(reply.status)))
               /\ sent' = sent
               /\ inflight' = inflight \ {<<"complete", i>>}
               /\ pc' = "append"
          ELSE /\ net' = net \o <<Event("return", "complete", i, oid,
                                         Some(reply.status)),
                                   Event("issue", "complete", i, oid, None)>>
               /\ sent' = Append(sent, [op |-> "complete", row |-> i, oid |-> oid,
                                        body |-> CompletePayload])
               /\ inflight' = inflight
               /\ pc' = "complete_wait"
  /\ UNCHANGED <<uploaded, df, ok, missing, results, total, i, progLog, exported, crash>>
  /\ UNCHANGED <<oid, t_status, t_data, success_tracking, attached>>

\* the PUT returned
CompleteReturn ==
  /\ pc = "complete_wait"
  /\ \E reply \in Replies :
       /\ c_status' = Some(reply.status)
       /\ c_data' = ParseBody(reply)
       /\ success_complete' = IsSuccess(reply.status)
       /\ net' = Append(net, Event("return", "complete", i, oid, Some(reply.status)))
       /\ completed' = IF IsSuccess(reply.status) THEN completed \cup {oid}
                       ELSE completed
  /\ inflight' = inflight \ {<<"complete", i>>}
  /\ pc' = "append"
  /\ UNCHANGED <<uploaded, df, ok, missing, results, total, i, progLog, exported, crash>>
  /\ UNCHANGED <<oid, t_status, t_data, success_tracking, sent, attached>>

\* Variant: the row's result is put in front of the list.
AppendResultFront ==
  /\ pc = "append"
  /\ results' = <<RowResult(oid, t_status, success_tracking, c_status,
                            success_complete, t_data, c_data)>> \o results
  /\ pc' = "progress"
  /\ UNCHANGED <<uploaded, df, ok, missing, total, i, progLog, exported, crash>>
  /\ UNCHANGED Locals
  /\ UNCHANGED Remote

\* results.append({...})
AppendResult ==
  /\ pc = "append"
  /\ results' = Append(results,
                       RowResult(oid, t_status, success_tracking, c_status,
                                 success_complete, t_data, c_data))
  /\ pc' = "progress"
  /\ UNCHANGED <<uploaded, df, ok, missing, total, i, progLog, exported, crash>>
  /\ UNCHANGED Locals
  /\ UNCHANGED Remote

\* log.write(...); prog.progress(i / total); next row
EmitProgress ==
  /\ pc = "progress"
  /\ progLog' = Append(progLog, ProgressValue(i, total))
  /\ i' = i + 1
  /\ pc' = "loop"
  /\ UNCHANGED <<uploaded, df, ok, missing, results, total, exported, crash>>
  /\ UNCHANGED Locals
  /\ UNCHANGED Remote

\* after the loop: st.success("Done"), the results table and its CSV
Export ==
  /\ pc = "loop"
  /\ i > total
  /\ exported' = Some(results)
  /\ pc' = "done"
  /\ UNCHANGED <<uploaded, df, ok, missing, results, total, i, progLog, crash>>
  /\ UNCHANGED Locals
  /\ UNCHANGED Remote

Next ==
  \/ UploadStop
  \/ UploadPreview
  \/ RunBulkUpdate
  \/ RowCoerceFail
  \/ RowPayloadFail
  \/ AttachSend
  \/ AttachRaise
  \/ AttachReturnOk
  \/ AttachReturnFail
  \/ CompleteRaise
  \/ CompleteReturn
  \/ AppendResult
  \/ EmitProgress
  \/ Export

Spec == Init /\ [][Next]_vars


\* ---------------------------------------------------------------- claims
NRows == Len(uploaded.rows)
IsNull(x) == x.kind \in {"nan", "none"}
NetIdx(ev, op, k) ==
  {j \in 1..Len(net) : net[j].ev = ev /\ net[j].op = op /\ net[j].row = k}
AttachOkIdx(k) ==
  {j \in NetIdx("return", "attach", k) : net[j].status \in {Some(200), Some(201)}}
\* the loop has taken up row k
RowStarted(k) ==
  /\ pc \in {"loop", "attach_wait", "complete_wait", "append", "progress",
             "done", "crashed"}
  /\ (i > k \/ (i = k /\ pc # "loop"))

\* C1: complete_order is called for a row exactly when that row's attach call
\* returned 200 or 201, at most once, with the row's order id, and after the
\* attach call returned.
C1_CompleteIffAttachSucceeded ==
  \A k \in 1..NRows :
    LET ci == NetIdx("issue", "complete", k)
    IN  /\ Cardinality(ci) <= 1
        /\ (ci # {}) <=> (AttachOkIdx(k) # {})
        /\ \A j \in ci :
             /\ net[j].oid = PyInt(uploaded.rows[k]["order_id"])
             /\ \E a \in AttachOkIdx(k) : a < j

C1_Witness ==
  /\ Len(results) = 2
  /\ results[1].tracking_status = 500
  /\ results[2].tracking_status = 201
  /\ NetIdx("issue", "complete", 1) = {}
  /\ NetIdx("issue", "complete", 2) # {}

\* C2: a failed remote call (a status outside 2xx, or a transport failure) does
\* not end the run; it is recorded in the row's result as not ok.
C2_RemoteFailureNotFatal ==
  \A j \in 1..Len(net) :
    (\/ net[j].ev = "raise"
     \/ (net[j].ev = "return" /\ net[j].status \notin {Some(s) : s \in 200..299}))
    => /\ ~(pc = "crashed" /\ crash = "transport")
       /\ Len(results) >= net[j].row =>
            IF net[j].op = "attach" THEN ~results[net[j].row].tracking_ok
            ELSE ~results[net[j].row].complete_ok

\* C3: a finished run has one result per input row, in input order.
C3_OneResultPerRowInOrder ==
  pc = "done" =>
    /\ Len(results) = NRows
    /\ \A k \in 1..NRows :
         results[k].order_id = PyInt(uploaded.rows[k]["order_id"])
    /\ exported = Some(results)

C3_Witness ==
  /\ pc = "done"
  /\ Len(results) = 2
  /\ results[1].order_id # results[2].order_id
  /\ ~results[1].tracking_ok
  /\ results[2].tracking_ok /\ ~results[2].complete_ok

\* C4: a dataset lacking a required column is rejected with exactly the missing
\* names; no remote call is made and no defaults or results are produced.
C4_MissingColumnsStopTheRun ==
  (pc # "uploaded" /\ ~({"order_id", "tracking_provider", "tracking_number"}
                         \subseteq uploaded.cols))
  => /\ pc = "schema_stop"
     /\ ok = FALSE
     /\ {missing[j] : j \in 1..Len(missing)} =
          {"order_id", "tracking_provider", "tracking_number"} \ uploaded.cols
     /\ Len(missing) = Cardinality({missing[j] : j \in 1..Len(missing)})
     /\ net = <<>> /\ sent = <<>> /\ inflight = {}
     /\ df = uploaded
     /\ results = <<>> /\ exported = None

C4_Witness ==
  /\ pc = "schema_stop"
  /\ missing = <<"order_id", "tracking_number">>
  /\ NRows > 0
  /\ "status_shipped" \notin uploaded.cols

\* C5: a row whose attach call returned a status other than 200 or 201 has
\* tracking_ok false, complete_status null, complete_ok false and the skip
\* marker as complete_response; in every result complete_ok implies tracking_ok.
C5_FailedAttachIsRecordedAsSkipped ==
  /\ \A j \in 1..Len(net) :
       (/\ net[j].ev = "return" /\ net[j].op = "attach"
        /\ net[j].status \notin {Some(200), Some(201)}
        /\ Len(results) >= net[j].row)
       => /\ results[net[j].row].tracking_status = net[j].status[1]
          /\ results[net[j].row].tracking_ok = FALSE
          /\ results[net[j].row].complete_status = None
          /\ results[net[j].row].complete_ok = FALSE
          /\ results[net[j].row].complete_response = [form |-> "skipped", of |-> 0]
  /\ \A k \in 1..Len(results) : results[k].complete_ok => results[k].tracking_ok

C5_Witness ==
  /\ Len(results) = 2
  /\ results[1].complete_ok
  /\ results[2].tracking_status = 500

\* C6: the remote calls are issued row by row in input order, an attach call
\* and then at most one complete call per row, each call returning before the
\* next is issued; no call is in flight with another and none is repeated.
C6_CallsAreSequentialAndNotRepeated ==
  /\ Cardinality(inflight) <= 1
  /\ \A j \in 1..Len(net) :
       /\ net[j].row \in 1..NRows
       /\ net[j].oid = PyInt(uploaded.rows[net[j].row]["order_id"])
       /\ net[j].ev = "issue" =>
            /\ Cardinality(NetIdx("issue", net[j].op, net[j].row)) = 1
            /\ IF j = Len(net) THEN inflight = {<<net[j].op, net[j].row>>}
               ELSE /\ net[j + 1].ev \in {"return", "raise"}
                    /\ net[j + 1].op = net[j].op
                    /\ net[j + 1].row = net[j].row
            /\ IF net[j].op = "attach"
               THEN /\ j = 1 => net[j].row = 1
                    /\ j > 1 => /\ net[j - 1].ev = "return"
                                /\ net[j - 1].row = net[j].row - 1
               ELSE /\ j > 1
                    /\ net[j - 1].ev = "return"
                    /\ net[j - 1].op = "attach"
                    /\ net[j - 1].row = net[j].row
       /\ net[j].ev # "issue" =>
            /\ j > 1
            /\ net[j - 1].ev = "issue"
            /\ net[j - 1].op = net[j].op
            /\ net[j - 1].row = net[j].row
            /\ j = Len(net) => inflight = {}

C6_Witness ==
  /\ pc = "done"
  /\ NRows = 2
  /\ Len(net) = 6
  /\ net[3].op = "attach" /\ net[3].row = 2
  /\ net[5].op = "complete" /\ net[5].row = 2

\* C7: a row whose status_shipped (replace_tracking) is null in a present
\* column still has its attach request sent, with status_shipped = 1
\* (replace_tracking = 0).
C7_NullOptionalDefaultedInAttach ==
  \A k \in 1..Len(df.rows) :
    (RowStarted(k) /\ PyIntOk(df.rows[k]["order_id"]))
    => /\ IsNull(df.rows[k]["status_shipped"]) =>
            \E j \in 1..Len(sent) :
              /\ sent[j].op = "attach" /\ sent[j].row = k
              /\ sent[j].body["status_shipped"] = IntV(1)
       /\ IsNull(df.rows[k]["replace_tracking"]) =>
            \E j \in 1..Len(sent) :
              /\ sent[j].op = "attach" /\ sent[j].row = k
              /\ sent[j].body["replace_tracking"] = IntV(0)

\* C8: the defaults step gives status_shipped = 1 and replace_tracking = 0 to
\* every row when the column is absent, leaves present fields as they are, is
\* done before the first remote call and changes nothing when applied again.
C8_DefaultsFillAbsentColumnsOnly ==
  /\ net # <<>> => pc \notin {"uploaded", "schema_stop"}
  /\ pc \notin {"uploaded", "schema_stop"} =>
       /\ df.cols = uploaded.cols \cup {"status_shipped", "replace_tracking"}
       /\ Len(df.rows) = NRows
       /\ \A k \in 1..NRows :
            /\ \A c \in uploaded.cols : df.rows[k][c] = uploaded.rows[k][c]
            /\ "status_shipped" \notin uploaded.cols =>
                 df.rows[k]["status_shipped"] = IntV(1)
            /\ "replace_tracking" \notin uploaded.cols =>
                 df.rows[k]["replace_tracking"] = IntV(0)
       /\ ApplyDefaults(df) = df

C8_Witness ==
  /\ pc = "attach_wait"
  /\ i = 2
  /\ "status_shipped" \in uploaded.cols
  /\ "replace_tracking" \notin uploaded.cols
  /\ uploaded.rows[1]["status_shipped"] = IntV(0)

\* C9: the progress emitted after the i-th of N rows is i/N; the values
\* increase strictly, the value of a row comes after its result was appended,
\* and 1.0 is emitted only after the last row, never for an empty dataset.
C9_ProgressIsRowIndexOverTotal ==
  /\ \A j \in 2..Len(progLog) :
       /\ progLog[j] = [num |-> j - 1, den |-> NRows]
       /\ Len(results) >= j - 1
  /\ \A j \in 1..(Len(progLog) - 1) :
       progLog[j].num * progLog[j + 1].den < progLog[j + 1].num * progLog[j].den
  /\ \A j \in 1..Len(progLog) :
       progLog[j].num = progLog[j].den =>
         /\ NRows > 0
         /\ j = NRows + 1
         /\ Len(results) = NRows

C9_Witness ==
  /\ pc = "done"
  /\ Len(progLog) = 3
  /\ progLog[3].num = progLog[3].den

\* C10: when the order_id of row k cannot be coerced to an integer the run
\* aborts at row k: no call is issued for row k or a later row, row k gets no
\* result, nothing is exported, and what the calls of the rows before k did
\* remotely stays done.
C10_BadOrderIdAbortsAtThatRow ==
  \A k \in 1..NRows :
    (pc \notin {"uploaded", "schema_stop"}
     /\ ~PyIntOk(uploaded.rows[k]["order_id"]))
    => /\ \A j \in 1..Len(net) : net[j].row < k
       /\ \A j \in 1..Len(sent) : sent[j].row < k
       /\ Len(results) < k
       /\ exported = None
       /\ pc # "done"
       /\ i <= k
       /\ (i = k => pc \in {"loop", "crashed"})
       /\ pc = "crashed" =>
            \A j \in 1..Len(net) :
              (net[j].ev = "return" /\ net[j].status \in {Some(200), Some(201)})
              => IF net[j].op = "attach" THEN net[j].oid \in attached
                 ELSE net[j].oid \in completed

C10_Witness ==
  /\ pc = "crashed"
  /\ crash = "order_id"
  /\ i = 2
  /\ Len(results) = 1
  /\ completed = {1}

====
